---- MODULE Spec2Model ----
(***************************************************************************)
(* Model of YoutubeTranscript.fetchTranscript (src/src/index.ts).          *)
(*                                                                         *)
(* One call of fetchTranscript is a sequential process that suspends at    *)
(* each network request.  The network is the environment: every response  *)
(* (rejection, status, body) is chosen nondeterministically when the       *)
(* awaited request completes.  Strings are sequences of one-character      *)
(* strings (video ids, URLs) or sequences of lexical tokens (timed-text    *)
(* bodies).                                                                *)
(***************************************************************************)
EXTENDS Integers, Sequences, FiniteSets, TLC

VARIABLES
    pc,             \* position of the call: "start", "awaitPage", "awaitTrack",
                    \* "awaitPlayer", "awaitTrack2", "done"
    videoId,        \* the raw first argument of fetchTranscript
    lang,           \* config?.lang (UNDEF when config or config.lang is missing)
    identifier,     \* const identifier (line 73)
    captions,       \* let captions (line 76): the primary catalog root
    innerTubeCaptions, \* const innerTubeCaptions (line 190): the secondary root
    requests,       \* the requests issued so far, in order
    pageResp,       \* what the watch-page request produced
    trackResp,      \* what the primary track request produced
    playerResp,     \* what the player-info POST produced
    track2Resp,     \* what the secondary track request produced
    outcome         \* how the call ended: pending, an error, or the segments

vars == <<pc, videoId, lang, identifier, captions, innerTubeCaptions, requests,
          pageResp, trackResp, playerResp, track2Resp, outcome>>

----------------------------------------------------------------------------
(* Bounds of the model *)

\* longest caption-track list of a catalog
MaxTracks == 2
\* most chunks (elements or junk) in a timed-text body
MaxItems == 2

----------------------------------------------------------------------------
(* Generic helpers *)

Max(S) == CHOOSE x \in S : \A y \in S : y <= x

Min(S) == CHOOSE x \in S : \A y \in S : x <= y

RECURSIVE Concat(_)
Concat(ss) == IF ss = <<>> THEN <<>> ELSE Head(ss) \o Concat(Tail(ss))

SeqsUpTo(S, n) == UNION {[1..k -> S] : k \in 0..n}

----------------------------------------------------------------------------
(* Identifier extraction: RE_YOUTUBE and retrieveVideoId *)

\* the length test of retrieveVideoId
IdLen == 11

StrYoutubeCom == <<"y","o","u","t","u","b","e",".","c","o","m","/">>
StrYoutuBe == <<"y","o","u","t","u",".","b","e","/">>
StrWatchV == <<"w","a","t","c","h","?","v","=">>
StrEmbed == <<"e","m","b","e","d","/">>
StrV == <<"v","/">>
StrE == <<"e","/">>

\* the class [^"&?\/\s] of the capture group
IdChar(c) == c \notin {"\"", "&", "?", "/", " "}

\* ([^"&?\/\s]{11}) matches at position j of s
IdAt(s, j) == /\ j + IdLen - 1 <= Len(s)
              /\ \A k \in j..(j + IdLen - 1) : IdChar(s[k])

\* the literal lit occurs in s at position i
LitAt(s, i, lit) == /\ i >= 1
                    /\ i + Len(lit) - 1 <= Len(s)
                    /\ \A k \in 1..Len(lit) : s[i + k - 1] = lit[k]

\* youtube\.com\/[^\/]+\/.+\/ starting at i: the positions right after it.
\* [^\/]+ runs to the first slash after the host; .+ is greedy and at least
\* one character long.
EndsPath(s, i) ==
    LET k == i + Len(StrYoutubeCom)
        slashes == {m \in (k + 1)..Len(s) : s[m] = "/"}
    IN  IF ~LitAt(s, i, StrYoutubeCom) \/ slashes = {} THEN {}
        ELSE LET m == Min(slashes)
             IN  IF \E x \in k..(m - 1) : s[x] = "/" THEN {}
                 ELSE {j \in (m + 3)..(Len(s) + 1) : s[j - 1] = "/"}

\* youtube\.com\/(?:v|e(?:mbed)?)\/ starting at i
EndsShort(s, i) ==
    LET k == i + Len(StrYoutubeCom)
    IN  IF ~LitAt(s, i, StrYoutubeCom) THEN {}
        ELSE {k + Len(t) : t \in {t \in {StrV, StrE, StrEmbed} : LitAt(s, k, t)}}

\* youtube\.com\/.*[?&]v= starting at i
EndsQuery(s, i) ==
    LET k == i + Len(StrYoutubeCom)
    IN  IF ~LitAt(s, i, StrYoutubeCom) THEN {}
        ELSE {j \in (k + 3)..(Len(s) + 1) :
                /\ s[j - 3] \in {"?", "&"}
                /\ s[j - 2] = "v"
                /\ s[j - 1] = "="}

\* youtu\.be\/ starting at i
EndsBe(s, i) == IF LitAt(s, i, StrYoutuBe) THEN {i + Len(StrYoutuBe)} ELSE {}

\* Start of the capture group for a match of RE_YOUTUBE beginning at i, or 0.
\* Alternatives are tried in the order of the pattern; the greedy .+ and .*
\* give the longest prefix first.
CaptureAt(s, i) ==
    LET a == {j \in EndsPath(s, i) : IdAt(s, j)}
        b == {j \in EndsShort(s, i) : IdAt(s, j)}
        c == {j \in EndsQuery(s, i) : IdAt(s, j)}
        d == {j \in EndsBe(s, i) : IdAt(s, j)}
    IN  IF a # {} THEN Max(a)
        ELSE IF b # {} THEN Max(b)
        ELSE IF c # {} THEN Max(c)
        ELSE IF d # {} THEN Max(d)
        ELSE 0

\* videoId.match(RE_YOUTUBE): <<>> when there is no match, otherwise
\* <<matchId[1]>>, the capture of the leftmost match
MatchYoutube(s) ==
    LET starts == {i \in 1..Len(s) : CaptureAt(s, i) # 0}
    IN  IF starts = {} THEN <<>>
        ELSE LET j == CaptureAt(s, Min(starts))
             IN  <<SubSeq(s, j, j + IdLen - 1)>>

\* a result of retrieveVideoId: the identifier, or the throw of line 250
IdResult(ok, id) == [ok |-> ok, id |-> id]

retrieveVideoId_noLengthTest(s) ==
    LET matchId == MatchYoutube(s)
    IN  IF matchId # <<>> THEN IdResult(TRUE, matchId[1])
        ELSE IdResult(FALSE, <<>>)

retrieveVideoId(s) ==
    IF Len(s) = IdLen THEN IdResult(TRUE, s)
    ELSE LET matchId == MatchYoutube(s)
         IN  IF matchId # <<>> THEN IdResult(TRUE, matchId[1])
             ELSE IdResult(FALSE, <<>>)

StrId == <<"a","b","c","d","e","f","g","h","i","j","k">>
StrNotAUrl == <<"n","o","t"," ","a"," ","u","r","l">>

\* the first arguments the model calls fetchTranscript with
VideoIdInputs == {
    StrId,                                       \* a bare id
    StrYoutuBe \o <<"a","b">>,                   \* 11 characters, not an id
    StrYoutuBe \o StrId,                         \* youtu.be/<id>
    StrYoutubeCom \o StrWatchV \o StrId,         \* youtube.com/watch?v=<id>
    StrYoutubeCom \o StrEmbed \o StrId,          \* youtube.com/embed/<id>
    StrYoutubeCom \o <<"a","/","b","/">> \o StrId, \* youtube.com/a/b/<id>
    StrNotAUrl,                                  \* "not a url"
    <<>>,                                        \* the empty string
    StrId \o <<"l">>,                            \* 12 characters, no URL shape
    StrYoutuBe \o <<"a","b","c">>,               \* youtu.be/ with a short id
    StrYoutuBe \o <<"a","b","c","d","e","/","g","h","i","j","k">> }

----------------------------------------------------------------------------
(* Timed-text bodies: RE_XML_TRANSCRIPT, matchAll and the segment mapping *)

\* A body is a sequence of tokens.  Four tokens are the literal parts of
\* RE_XML_TRANSCRIPT; the others are single characters.
TokOpen == "<text start=\""
TokMid == "\" dur=\""
TokGt == "\">"
TokClose == "</text>"

Digits == {"1", "2", "3"}

\* a token that holds a double quote: [^"]* stops in front of it
HasQuote(t) == t \in {TokOpen, TokMid, TokGt, "\""}

\* a token that holds a '<': [^<]* stops in front of it
HasLt(t) == t \in {TokOpen, TokClose, "<"}

\* first position >= p of body whose token is in the stop class (Len + 1 if none)
RECURSIVE RunEnd(_, _, _)
RunEnd(body, p, quote) ==
    IF p > Len(body) THEN p
    ELSE IF (quote /\ HasQuote(body[p])) \/ (~quote /\ HasLt(body[p])) THEN p
    ELSE RunEnd(body, p + 1, quote)

NoMatch == [ok |-> FALSE, start |-> <<>>, dur |-> <<>>, text |-> <<>>, next |-> 0]

\* one attempt of RE_XML_TRANSCRIPT at position p: the three groups and the
\* position after the match
MatchAt(body, p) ==
    IF p > Len(body) \/ body[p] # TokOpen THEN NoMatch
    ELSE LET a == RunEnd(body, p + 1, TRUE)
         IN  IF a > Len(body) \/ body[a] # TokMid THEN NoMatch
             ELSE LET b == RunEnd(body, a + 1, TRUE)
                  IN  IF b > Len(body) \/ body[b] # TokGt THEN NoMatch
                      ELSE LET c == RunEnd(body, b + 1, FALSE)
                           IN  IF c > Len(body) \/ body[c] # TokClose THEN NoMatch
                               ELSE [ok    |-> TRUE,
                                     start |-> SubSeq(body, p + 1, a - 1),
                                     dur   |-> SubSeq(body, a + 1, b - 1),
                                     text  |-> SubSeq(body, b + 1, c - 1),
                                     next  |-> c + 1]

\* the global scan from lastIndex p: leftmost match, then on from its end
RECURSIVE MatchAllFrom(_, _)
MatchAllFrom(body, p) ==
    IF p > Len(body) THEN <<>>
    ELSE LET m == MatchAt(body, p)
         IN  IF m.ok THEN <<m>> \o MatchAllFrom(body, m.next)
             ELSE MatchAllFrom(body, p + 1)

\* a scan that stops at the first match, as a pattern without the g flag would
MatchAll_firstOnly(body) ==
    LET all == MatchAllFrom(body, 1)
    IN  IF all = <<>> THEN <<>> ELSE <<all[1]>>

\* [...body.matchAll(RE_XML_TRANSCRIPT)]
MatchAll(body) == MatchAllFrom(body, 1)

\* parseFloat's NaN
NaN == -1

DigitValue(t) == CASE t = "1" -> 1 [] t = "2" -> 2 [] t = "3" -> 3 [] OTHER -> 0

\* value of the leading digits of s read after acc (parseFloat stops at the
\* first character that cannot continue a number)
RECURSIVE LeadingValue(_, _)
LeadingValue(s, acc) ==
    IF s = <<>> \/ Head(s) \notin Digits THEN acc
    ELSE LeadingValue(Tail(s), 10 * acc + DigitValue(Head(s)))

parseFloat(s) ==
    IF s = <<>> \/ Head(s) \notin Digits THEN NaN ELSE LeadingValue(s, 0)

\* config.lang values: UNDEF stands for undefined (no config, or no lang)
UNDEF == "undefined"

\* JavaScript truthiness of config?.lang, as in config?.lang && ..., config?.lang ? ... : ...
Truthy(l) == l # UNDEF /\ l # ""

\* config?.lang ?? dflt  (lines 217 and 234)
Nullish(l, dflt) == IF l = UNDEF THEN dflt ELSE l

\* results.map(...) of lines 213-218 and 230-235; tracks is the captionTracks
\* list of the catalog in use
Segments(results, l, tracks) ==
    [i \in 1..Len(results) |->
        [text     |-> results[i].text,
         duration |-> parseFloat(results[i].dur),
         offset   |-> parseFloat(results[i].start),
         lang     |-> Nullish(l, tracks[1].languageCode)]]

\* The chunks timed-text bodies are built from.  An element chunk renders
\* to one <text start="S" dur="D">TEXT</text> element.
Element(s, d, t) == [elem |-> TRUE, start |-> s, dur |-> d, text |-> t,
                     raw |-> <<TokOpen>> \o s \o <<TokMid>> \o d \o <<TokGt>> \o t
                             \o <<TokClose>>]

Junk(raw) == [elem |-> FALSE, start |-> <<>>, dur |-> <<>>, text |-> <<>>, raw |-> raw]

BodyChunks == {
    Element(<<"3">>, <<"1">>, <<"a">>),
    Element(<<"1">>, <<"2">>, <<"b">>),
    \* empty start, a duration with a trailing letter, quotes and '>' in the text
    Element(<<>>, <<"1", "2", "a">>, <<"\"", "b", TokGt>>),
    \* plain text between elements
    Junk(<<"a">>),
    \* a text element whose content holds a '<'
    Junk(<<TokOpen, "1", TokMid, "2", TokGt, "a", "<", "b", TokClose>>) }

\* the chunk lists of the bodies a track request may return
BodyItems == SeqsUpTo(BodyChunks, MaxItems)

\* the body text of a chunk list
Render(items) == Concat([i \in 1..Len(items) |-> items[i].raw])

----------------------------------------------------------------------------
(* Caption catalogs and the JSON values they are read from *)

\* languageCode values of the tracks a catalog may list
TrackLangs == {"en", "fr"}

\* config?.lang values of the model: missing, the empty string, a code some
\* catalogs list, and the same code in another case
Langs == {UNDEF, "", "fr", "FR"}

\* the baseUrl of track n of the catalog read from src ("page" or "player")
BaseUrl(src, n) == [kind |-> "track", id |-> <<>>, src |-> src, n |-> n]

\* the captionTracks lists a catalog read from src may hold
TrackLists(src) ==
    {[i \in 1..Len(codes) |-> [languageCode |-> codes[i], baseUrl |-> BaseUrl(src, i)]] :
        codes \in SeqsUpTo(TrackLangs, MaxTracks)}

\* A value of playerCaptionsTracklistRenderer:
\*   "absent"  undefined (no such field, or nothing to read it from)
\*   "falsy"   null, and the other falsy JSON values
\*   "prim"    a truthy value that is not an object
\*   "obj"     an object; hasTracks: it has a captionTracks key; isList: the
\*             value of that key is an array (otherwise a truthy non-array)
Root(kind, hasTracks, isList, tracks) ==
    [kind |-> kind, hasTracks |-> hasTracks, isList |-> isList, tracks |-> tracks]

RootAbsent == Root("absent", FALSE, FALSE, <<>>)
RootFalsy == Root("falsy", FALSE, FALSE, <<>>)
RootPrim == Root("prim", FALSE, FALSE, <<>>)

Roots(src) ==
    {RootFalsy, RootPrim, Root("obj", FALSE, FALSE, <<>>), Root("obj", TRUE, FALSE, <<>>)}
    \cup {Root("obj", TRUE, TRUE, t) : t \in TrackLists(src)}

\* A parsed JSON value that the renderer is read from: null, or a value with
\* or without a playerCaptionsTracklistRenderer field
Doc(isNull, hasRenderer, renderer) ==
    [isNull |-> isNull, hasRenderer |-> hasRenderer, renderer |-> renderer]

DocNull == Doc(TRUE, FALSE, RootAbsent)
DocNoRenderer == Doc(FALSE, FALSE, RootAbsent)

Docs(src) == {DocNull, DocNoRenderer} \cup {Doc(FALSE, TRUE, r) : r \in Roots(src)}

\* What /"captions":\s*({[^}]+})/ can capture and JSON.parse accept: the
\* capture ends at the first '}', so it is an object without nested objects
FlatDocs == {DocNoRenderer, Doc(FALSE, TRUE, RootFalsy), Doc(FALSE, TRUE, RootPrim)}

\* doc?.['playerCaptionsTracklistRenderer']
Renderer(doc) == IF doc.isNull \/ ~doc.hasRenderer THEN RootAbsent ELSE doc.renderer

\* JavaScript truthiness of a root
RootTruthy(r) == r.kind \in {"prim", "obj"}

----------------------------------------------------------------------------
(* Responses of the network *)

\* The watch page.  kind: "rejected" (fetch or text() rejects) or "body".
\* A body is described by what the code reads from it: whether it holds the
\* markers, what JSON.parse makes of the slice after "captions": (p1ok,
\* p1doc), and whether the fallback pattern matches (altMatch) and its
\* capture parses (altOk, altDoc).  The status is never read.
Page(kind, hasCaptions, recaptcha, playability, p1ok, p1doc, altMatch, altOk, altDoc) ==
    [kind |-> kind, hasCaptions |-> hasCaptions, recaptcha |-> recaptcha,
     playability |-> playability, p1ok |-> p1ok, p1doc |-> p1doc,
     altMatch |-> altMatch, altOk |-> altOk, altDoc |-> altDoc]

NoPage == Page("none", FALSE, FALSE, FALSE, FALSE, DocNull, FALSE, FALSE, DocNull)

\* With the "captions": marker in the body the other two markers are never
\* looked for (lines 91-99), so those bodies are taken without them.
PageResponses ==
    {Page("rejected", FALSE, FALSE, FALSE, FALSE, DocNull, FALSE, FALSE, DocNull)}
    \cup {Page("body", FALSE, r, p, FALSE, DocNull, FALSE, FALSE, DocNull) :
            r \in BOOLEAN, p \in BOOLEAN}
    \cup {Page("body", TRUE, FALSE, FALSE, TRUE, d, FALSE, FALSE, DocNull) :
            d \in Docs("page")}
    \cup {Page("body", TRUE, FALSE, FALSE, FALSE, DocNull, m, FALSE, DocNull) :
            m \in BOOLEAN}
    \cup {Page("body", TRUE, FALSE, FALSE, FALSE, DocNull, TRUE, TRUE, d) :
            d \in FlatDocs}

\* A track request.  kind: "rejected" (fetch rejects), "status" (response.ok
\* is false), "bodyfail" (ok, text() rejects), "ok" (ok, the body is the
\* rendering of items)
Track(kind, items) == [kind |-> kind, items |-> items]

NoTrack == Track("none", <<>>)

TrackResponses ==
    {Track("rejected", <<>>), Track("status", <<>>), Track("bodyfail", <<>>)}
    \cup {Track("ok", items) : items \in BodyItems}

\* The player-info POST.  kind: "rejected", "status", "nonjson" (ok, json()
\* rejects), "json" (ok; isNull: the value is null; hasCaptions and captions:
\* its captions field)
Player(kind, isNull, hasCaptions, doc) ==
    [kind |-> kind, isNull |-> isNull, hasCaptions |-> hasCaptions, captions |-> doc]

NoPlayer == Player("none", FALSE, FALSE, DocNull)

PlayerResponses ==
    {Player("rejected", FALSE, FALSE, DocNull), Player("status", FALSE, FALSE, DocNull),
     Player("nonjson", FALSE, FALSE, DocNull), Player("json", TRUE, FALSE, DocNull),
     Player("json", FALSE, FALSE, DocNull)}
    \cup {Player("json", FALSE, TRUE, d) : d \in Docs("player")}

----------------------------------------------------------------------------
(* Requests and outcomes *)

WatchUrl(id) == [kind |-> "watch", id |-> id, src |-> "", n |-> 0]
PlayerUrl == [kind |-> "player", id |-> <<>>, src |-> "", n |-> 0]

\* ...(config?.lang && { 'Accept-Language': config.lang })
AcceptLanguage(l) == IF Truthy(l) THEN l ELSE UNDEF

Request(method, url, acceptLanguage, referer, body) ==
    [method |-> method, url |-> url, acceptLanguage |-> acceptLanguage,
     referer |-> referer, body |-> body]

\* lines 78-86
PageRequest(id, l) == Request("GET", WatchUrl(id), AcceptLanguage(l), <<>>, <<>>)
\* lines 151-156
TrackRequest(url, l) == Request("GET", url, AcceptLanguage(l), <<>>, <<>>)
\* lines 166-186
PlayerRequest(id) == Request("POST", PlayerUrl, UNDEF, id, id)
\* lines 201-207
Track2Request(url, l, id) == Request("GET", url, AcceptLanguage(l), id, <<>>)

\* The subclasses of YoutubeTranscriptError, and the base class itself,
\* which retrieveVideoId throws
TypedErrors == {"TooManyRequest", "VideoUnavailable", "Disabled", "NotAvailable",
                "NotAvailableLanguage", "YoutubeTranscriptError"}

\* What else can be thrown: a rejected fetch, a rejected body read, the
\* SyntaxError of JSON.parse or json(), a TypeError of the language
UntypedErrors == {"FetchRejected", "BodyRejected", "SyntaxError", "TypeError"}

Outcome(kind, type, l, langs, segs) ==
    [kind |-> kind, type |-> type, lang |-> l, langs |-> langs, segs |-> segs]

Pending == Outcome("pending", "", "", <<>>, <<>>)
Err(type) == Outcome("error", type, "", <<>>, <<>>)
\* new YoutubeTranscriptNotAvailableLanguageError(lang, availableLangs, videoId)
ErrLang(l, langs) == Outcome("error", "NotAvailableLanguage", l, langs, <<>>)
Returned(segs) == Outcome("segments", "", "", <<>>, segs)

----------------------------------------------------------------------------
(* The steps of fetchTranscript between two awaits *)

\* a value or a throw
Value(v) == [threw |-> FALSE, cause |-> "", value |-> v]
Throw(cause) == [threw |-> TRUE, cause |-> cause, value |-> RootAbsent]

\* the body of the try of lines 77-114 once the page request has completed
HtmlPath(page) ==
    IF page.kind = "rejected" THEN Throw("FetchRejected")
    ELSE IF ~page.hasCaptions THEN
        IF page.recaptcha THEN Throw("TooManyRequest")
        ELSE IF ~page.playability THEN Throw("VideoUnavailable")
        ELSE Throw("Disabled")
    ELSE IF page.p1ok THEN Value(Renderer(page.p1doc))
    ELSE IF ~page.altMatch THEN Value(RootAbsent)
    ELSE IF ~page.altOk THEN Throw("SyntaxError")
    ELSE Value(Renderer(page.altDoc))

\* lines 77-118: the catch sets captions to null whatever was thrown
Locate(page) ==
    LET r == HtmlPath(page)
    IN  IF r.threw THEN RootFalsy ELSE r.value

ClassifyCatalog_swapped(c) ==
    IF ~RootTruthy(c) THEN "NotAvailable"
    ELSE IF c.kind = "prim" THEN "TypeError"
    ELSE IF ~c.hasTracks THEN "Disabled"
    ELSE ""

\* lines 122-128: the error the catalog root is rejected with, "" if none.
\* The in operator throws a TypeError on a value that is not an object.
ClassifyCatalog(c) ==
    IF ~RootTruthy(c) THEN "Disabled"
    ELSE IF c.kind = "prim" THEN "TypeError"
    ELSE IF ~c.hasTracks THEN "NotAvailable"
    ELSE ""

\* captionTracks.some((track) => track.languageCode === config?.lang)
SomeTrack(tracks, l) == \E i \in 1..Len(tracks) : tracks[i].languageCode = l

FindTrack_last(tracks, l) ==
    LET hits == {i \in 1..Len(tracks) : tracks[i].languageCode = l}
    IN  IF hits = {} THEN 0 ELSE Max(hits)

\* captionTracks.find((track) => track.languageCode === config?.lang): the
\* position of the track found, 0 for undefined
FindTrack(tracks, l) ==
    LET hits == {i \in 1..Len(tracks) : tracks[i].languageCode = l}
    IN  IF hits = {} THEN 0 ELSE Min(hits)

\* config?.lang ? captionTracks.find(...) : captionTracks[0]   (lines 143-149
\* and 193-199): the position of the track, 0 for undefined
PickTrack(tracks, l) ==
    IF Truthy(l) THEN FindTrack(tracks, l)
    ELSE IF Len(tracks) >= 1 THEN 1 ELSE 0

\* a step's result: the call ends with outcome out, or goes on to fetch url
Ends(out) == [ends |-> TRUE, out |-> out, url |-> PlayerUrl]
Fetches(url) == [ends |-> FALSE, out |-> Pending, url |-> url]

\* lines 122-149: from the catalog root to the URL of the track to fetch
SelectPrimary(c, l) ==
    IF ClassifyCatalog(c) # "" THEN Ends(Err(ClassifyCatalog(c)))
    \* .some or [0] of a captionTracks that is no array
    ELSE IF ~c.isList THEN Ends(Err("TypeError"))
    ELSE IF Truthy(l) /\ ~SomeTrack(c.tracks, l) THEN
        Ends(ErrLang(l, [i \in 1..Len(c.tracks) |-> c.tracks[i].languageCode]))
    \* .baseUrl of undefined
    ELSE IF PickTrack(c.tracks, l) = 0 THEN Ends(Err("TypeError"))
    ELSE Fetches(c.tracks[PickTrack(c.tracks, l)].baseUrl)

NeedsInnerTube_always(body) == TRUE

\* line 164: transcriptBody.length === 0
NeedsInnerTube(body) == Len(body) = 0

InnerTubeFailure_rethrow(cause) ==
    IF cause = "" THEN Err("NotAvailable") ELSE Err(cause)

\* lines 223-226: whatever the try of the secondary path threw (cause), and
\* also when it ran through without returning (cause ""), the call throws
\* YoutubeTranscriptNotAvailableError
InnerTubeFailure(cause) == Err("NotAvailable")

\* innerTubeData?.captions?.playerCaptionsTracklistRenderer   (line 190)
InnerTubeRoot(resp) ==
    IF resp.isNull \/ ~resp.hasCaptions THEN RootAbsent ELSE Renderer(resp.captions)

\* innerTubeCaptions && innerTubeCaptions.captionTracks   (line 192)
HasInnerTubeTracks(c) == c.kind = "obj" /\ c.hasTracks

\* lines 188-199 once the POST has completed
SelectSecondary(resp, l) ==
    IF resp.kind = "rejected" THEN Ends(InnerTubeFailure("FetchRejected"))
    ELSE IF resp.kind = "status" THEN Ends(InnerTubeFailure(""))
    ELSE IF resp.kind = "nonjson" THEN Ends(InnerTubeFailure("SyntaxError"))
    ELSE LET c == InnerTubeRoot(resp)
         IN  IF ~HasInnerTubeTracks(c) THEN Ends(InnerTubeFailure(""))
             \* .find or [0] of a captionTracks that is no array
             ELSE IF ~c.isList THEN Ends(InnerTubeFailure("TypeError"))
             \* .baseUrl of undefined
             ELSE IF PickTrack(c.tracks, l) = 0 THEN Ends(InnerTubeFailure("TypeError"))
             ELSE Fetches(c.tracks[PickTrack(c.tracks, l)].baseUrl)

\* lines 157-164 and 229-235 once the primary track request has completed;
\* an empty body goes on to the POST of the secondary path
PrimaryResult(resp, l, c) ==
    IF resp.kind = "rejected" THEN Ends(Err("FetchRejected"))
    ELSE IF resp.kind = "status" THEN Ends(Err("NotAvailable"))
    ELSE IF resp.kind = "bodyfail" THEN Ends(Err("BodyRejected"))
    ELSE IF NeedsInnerTube(Render(resp.items)) THEN Fetches(PlayerUrl)
    ELSE Ends(Returned(Segments(MatchAll(Render(resp.items)), l, c.tracks)))

\* lines 209-226 once the secondary track request has completed
SecondaryResult(resp, l, c) ==
    IF resp.kind = "rejected" THEN InnerTubeFailure("FetchRejected")
    ELSE IF resp.kind = "status" THEN InnerTubeFailure("")
    ELSE IF resp.kind = "bodyfail" THEN InnerTubeFailure("BodyRejected")
    ELSE IF Len(Render(resp.items)) > 0
        THEN Returned(Segments(MatchAll(Render(resp.items)), l, c.tracks))
    ELSE InnerTubeFailure("")

----------------------------------------------------------------------------
(* The state machine *)

Init ==
    /\ pc = "start"
    /\ videoId \in VideoIdInputs
    /\ lang \in Langs
    /\ identifier = <<>>
    /\ captions = RootAbsent
    /\ innerTubeCaptions = RootAbsent
    /\ requests = <<>>
    /\ pageResp = NoPage
    /\ trackResp = NoTrack
    /\ playerResp = NoPlayer
    /\ track2Resp = NoTrack
    /\ outcome = Pending

\* lines 73-86: retrieveVideoId, then the watch-page request
Start ==
    /\ pc = "start"
    /\ LET r == retrieveVideoId(videoId)
       IN  IF r.ok
           THEN /\ identifier' = r.id
                /\ requests' = Append(requests, PageRequest(r.id, lang))
                /\ pc' = "awaitPage"
                /\ outcome' = outcome
           ELSE /\ identifier' = identifier
                /\ requests' = requests
                /\ pc' = "done"
                /\ outcome' = Err("YoutubeTranscriptError")
    /\ UNCHANGED <<videoId, lang, captions, innerTubeCaptions, pageResp, trackResp,
                   playerResp, track2Resp>>

\* lines 87-156: the page request completes; the catalog is read, a track is
\* selected and its request issued
PageResponse ==
    /\ pc = "awaitPage"
    /\ \E resp \in PageResponses :
        LET c == Locate(resp)
            sel == SelectPrimary(c, lang)
        IN  /\ pageResp' = resp
            /\ captions' = c
            /\ IF sel.ends
               THEN /\ pc' = "done"
                    /\ outcome' = sel.out
                    /\ requests' = requests
               ELSE /\ pc' = "awaitTrack"
                    /\ outcome' = outcome
                    /\ requests' = Append(requests, TrackRequest(sel.url, lang))
    /\ UNCHANGED <<videoId, lang, identifier, innerTubeCaptions, trackResp, playerResp,
                   track2Resp>>

\* lines 157-186 and 229-235: the primary track request completes
TrackResponse ==
    /\ pc = "awaitTrack"
    /\ \E resp \in TrackResponses :
        LET res == PrimaryResult(resp, lang, captions)
        IN  /\ trackResp' = resp
            /\ IF res.ends
               THEN /\ pc' = "done"
                    /\ outcome' = res.out
                    /\ requests' = requests
               ELSE /\ pc' = "awaitPlayer"
                    /\ outcome' = outcome
                    /\ requests' = Append(requests, PlayerRequest(identifier))
    /\ UNCHANGED <<videoId, lang, identifier, captions, innerTubeCaptions, pageResp,
                   playerResp, track2Resp>>

\* lines 188-207 and 223-226: the POST completes
PlayerResponse ==
    /\ pc = "awaitPlayer"
    /\ \E resp \in PlayerResponses :
        LET sel == SelectSecondary(resp, lang)
        IN  /\ playerResp' = resp
            /\ innerTubeCaptions' =
                   IF resp.kind = "json" THEN InnerTubeRoot(resp) ELSE innerTubeCaptions
            /\ IF sel.ends
               THEN /\ pc' = "done"
                    /\ outcome' = sel.out
                    /\ requests' = requests
               ELSE /\ pc' = "awaitTrack2"
                    /\ outcome' = outcome
                    /\ requests' = Append(requests, Track2Request(sel.url, lang, identifier))
    /\ UNCHANGED <<videoId, lang, identifier, captions, pageResp, trackResp, track2Resp>>

\* lines 209-226: the secondary track request completes
Track2Response ==
    /\ pc = "awaitTrack2"
    /\ \E resp \in TrackResponses :
        /\ track2Resp' = resp
        /\ pc' = "done"
        /\ outcome' = SecondaryResult(resp, lang, innerTubeCaptions)
    /\ UNCHANGED <<videoId, lang, identifier, captions, innerTubeCaptions, requests,
                   pageResp, trackResp, playerResp>>

Next == Start \/ PageResponse \/ TrackResponse \/ PlayerResponse \/ Track2Response

Spec == Init /\ [][Next]_vars

----------------------------------------------------------------------------
(* Properties *)

Done == pc = "done"

\* some request so far is the POST to the player-info endpoint
PostIssued == \E i \in 1..Len(requests) :
                 requests[i].method = "POST" /\ requests[i].url = PlayerUrl

\* the primary track request returned a successful status and an empty body
PrimaryEmpty == trackResp.kind = "ok" /\ Render(trackResp.items) = <<>>

\* a language was requested: the test the code makes of config?.lang
LangRequested == Truthy(lang)

\* the failures inside the secondary path
SecondaryFailed ==
    \/ playerResp.kind \in {"rejected", "status", "nonjson"}
    \/ /\ playerResp.kind = "json"
       /\ \/ ~(innerTubeCaptions.kind = "obj" /\ innerTubeCaptions.hasTracks)
          \/ /\ innerTubeCaptions.isList
             /\ LangRequested
             /\ \A i \in 1..Len(innerTubeCaptions.tracks) :
                    innerTubeCaptions.tracks[i].languageCode # lang
    \/ track2Resp.kind \in {"rejected", "status", "bodyfail"}
    \/ track2Resp.kind = "ok" /\ Render(track2Resp.items) = <<>>

\* C1: once the primary track request has returned a successful status with
\* an empty body, the POST to the player-info endpoint has been issued; the
\* call then ends either with the segments of a non-empty secondary track
\* body or with YoutubeTranscriptNotAvailableError, and every failure inside
\* the secondary path ends it with that error and no other.
C1_EmptyBodyRunsSecondary ==
    PrimaryEmpty =>
        /\ PostIssued
        /\ Done =>
            /\ \/ outcome = Err("NotAvailable")
               \/ /\ outcome.kind = "segments"
                  /\ track2Resp.kind = "ok"
                  /\ Render(track2Resp.items) # <<>>
            /\ SecondaryFailed => outcome = Err("NotAvailable")

\* the secondary track request was rejected and the call ended with
\* YoutubeTranscriptNotAvailableError
C1_Witness ==
    /\ Done
    /\ PrimaryEmpty
    /\ PostIssued
    /\ track2Resp.kind = "rejected"
    /\ outcome = Err("NotAvailable")

\* C2: a watch page that holds class="g-recaptcha" and no "captions": marker
\* ends the call with YoutubeTranscriptTooManyRequestError.
C2_CaptchaIsTooManyRequests ==
    (Done /\ pageResp.kind = "body" /\ ~pageResp.hasCaptions /\ pageResp.recaptcha)
        => outcome = Err("TooManyRequest")

\* C3: a watch page with none of the three markers ends the call with
\* YoutubeTranscriptVideoUnavailableError; one with only the
\* "playabilityStatus": marker ends it with YoutubeTranscriptDisabledError.
C3_UnavailableOrDisabled ==
    (Done /\ pageResp.kind = "body" /\ ~pageResp.hasCaptions /\ ~pageResp.recaptcha)
        => /\ ~pageResp.playability => outcome = Err("VideoUnavailable")
           /\ pageResp.playability => outcome = Err("Disabled")

\* the primary catalog is an object with a captionTracks array
PrimaryWellFormed ==
    /\ pageResp.kind = "body"
    /\ captions.kind = "obj"
    /\ captions.hasTracks
    /\ captions.isList

\* request i is the GET of the given track URL
IsTrackGet(i, url) ==
    /\ i <= Len(requests)
    /\ requests[i].method = "GET"
    /\ requests[i].url = url

\* C4: on a well-formed primary catalog, a requested language that no track
\* carries (compared exactly) ends the call with
\* YoutubeTranscriptNotAvailableLanguageError holding that language and all
\* language codes in catalog order, and no track request is issued; a
\* requested language that some track carries makes the track request go to
\* the first such track; with no requested language it goes to the first
\* track of the catalog.
C4_TrackSelection ==
    PrimaryWellFormed =>
        LET tracks == captions.tracks
            n == Len(tracks)
            hits == {i \in 1..n : tracks[i].languageCode = lang}
        IN  /\ (LangRequested /\ hits = {}) =>
                /\ Done
                /\ outcome.kind = "error"
                /\ outcome.type = "NotAvailableLanguage"
                /\ outcome.lang = lang
                /\ outcome.langs = [i \in 1..n |-> tracks[i].languageCode]
                /\ Len(requests) = 1
            /\ (LangRequested /\ hits # {}) =>
                \E k \in hits :
                    /\ \A j \in hits : k <= j
                    /\ IsTrackGet(2, tracks[k].baseUrl)
            /\ (~LangRequested /\ n >= 1) => IsTrackGet(2, tracks[1].baseUrl)

\* the requested language is carried by the second track and not by the
\* first, and the track request went to the second
C4_Witness ==
    /\ PrimaryWellFormed
    /\ lang = "fr"
    /\ Len(captions.tracks) = 2
    /\ captions.tracks[1].languageCode = "en"
    /\ captions.tracks[2].languageCode = "fr"
    /\ IsTrackGet(2, BaseUrl("page", 2))

\* the page holds the "captions": marker and no parse of it gave a value
PageParseFailed ==
    /\ pageResp.kind = "body"
    /\ pageResp.hasCaptions
    /\ ~pageResp.p1ok
    /\ ~pageResp.altMatch \/ ~pageResp.altOk

\* the page holds the marker and a parse gave the value doc
PageParsed(doc) ==
    /\ pageResp.kind = "body"
    /\ pageResp.hasCaptions
    /\ \/ pageResp.p1ok /\ doc = pageResp.p1doc
       \/ ~pageResp.p1ok /\ pageResp.altMatch /\ pageResp.altOk /\ doc = pageResp.altDoc

C6_OnlyTypedErrors == outcome.kind = "error" => outcome.type \in TypedErrors

C8_SegmentLang ==
    outcome.kind = "segments" =>
        LET used == IF track2Resp.kind = "ok" THEN innerTubeCaptions ELSE captions
        IN  \A i \in 1..Len(outcome.segs) :
                outcome.segs[i].lang =
                    IF LangRequested THEN lang ELSE used.tracks[1].languageCode

\* the text, duration and offset of the elements of a chunk list, in order
ElementsOf(items) ==
    LET es == SelectSeq(items, LAMBDA c : c.elem)
    IN  [i \in 1..Len(es) |->
            [text |-> es[i].text, duration |-> parseFloat(es[i].dur),
             offset |-> parseFloat(es[i].start)]]

\* segments without their lang
Timed(segs) ==
    [i \in 1..Len(segs) |->
        [text |-> segs[i].text, duration |-> segs[i].duration, offset |-> segs[i].offset]]

\* C9: a non-empty timed-text body, on the primary and on the secondary
\* path, ends the call with one segment per text element of the body, in
\* document order, each with the text, the parsed duration and the parsed
\* start of its element; a body without elements gives the empty sequence.
C9_OneSegmentPerElement ==
    /\ (Done /\ trackResp.kind = "ok" /\ trackResp.items # <<>>) =>
        /\ outcome.kind = "segments"
        /\ Timed(outcome.segs) = ElementsOf(trackResp.items)
    /\ (Done /\ track2Resp.kind = "ok" /\ track2Resp.items # <<>>) =>
        /\ outcome.kind = "segments"
        /\ Timed(outcome.segs) = ElementsOf(track2Resp.items)

\* the secondary body held two elements whose starts decrease, and both
\* came back in document order
C9_Witness ==
    /\ Done
    /\ track2Resp.kind = "ok"
    /\ Len(outcome.segs) = 2
    /\ outcome.segs[1].offset = 3
    /\ outcome.segs[2].offset = 1

\* C10: an input of exactly 11 characters is the identifier, unchanged, and
\* the id of the watch-page URL; an input of another length that RE_YOUTUBE
\* does not match ends the call with the base YoutubeTranscriptError before
\* any request is issued.
C10_IdentifierExtraction ==
    pc # "start" =>
        /\ Len(videoId) = IdLen =>
            /\ identifier = videoId
            /\ requests # <<>>
            /\ requests[1].method = "GET"
            /\ requests[1].url = WatchUrl(videoId)
        /\ (Len(videoId) # IdLen /\ MatchYoutube(videoId) = <<>>) =>
            /\ Done
            /\ outcome = Err("YoutubeTranscriptError")
            /\ requests = <<>>

\* an 11-character input that is no video id was taken as the identifier
C10_Witness ==
    /\ videoId = StrYoutuBe \o <<"a", "b">>
    /\ identifier = videoId
    /\ Len(requests) >= 1
    /\ requests[1].url = WatchUrl(videoId)

====
